---- MODULE Spec2Model ----
(***************************************************************************)
(* EOXS log automation: the HTTP wrapper (POST /automate, GET /status)    *)
(* and the automation run it starts (EOXSPlaywrightAutomationWithLog).    *)
(*                                                                         *)
(* A JavaScript string is a sequence of tokens (characters or words), so  *)
(* that includes() and toLowerCase() are computed and not assumed.        *)
(* A JavaScript object with string keys (process.env, a request body) is  *)
(* a function whose domain is the set of keys it holds.                   *)
(* Node runs one callback at a time: an action is the code between two    *)
(* awaits, and the outcome of a browser operation is chosen by the web    *)
(* page, i.e. nondeterministically.                                       *)
(***************************************************************************)
EXTENDS Integers, Sequences, FiniteSets, TLC

VARIABLES env, config, jobs, reqs, clock, lastStatus, site

vars == <<env, config, jobs, reqs, clock, lastStatus, site>>

\* Number of POST /automate requests a behaviour may contain.
MaxReqs == 2

ReqIds == 1..MaxReqs

\* Ids GET /status may ask for: every id uuidv4 can hand out, and one more.
StatusIds == 1..(MaxReqs + 1)

----------------------------------------------------------------------------
\* Strings

EmptyStr == <<>>

LowerTok(t) ==
    CASE t = "T" -> "t"
      [] t = "S" -> "s"
      [] t = "X" -> "x"
      [] OTHER -> t

ToLowerCase(s) == [i \in 1..Len(s) |-> LowerTok(s[i])]

Includes(s, sub) ==
    \E i \in 0..(Len(s) - Len(sub)) : SubSeq(s, i + 1, i + Len(sub)) = sub

----------------------------------------------------------------------------
\* process.env and request bodies

EmptyObj == [k \in {} |-> EmptyStr]

Has(o, k) == k \in DOMAIN o

\* o[k] is truthy: present and not the empty string.
Truthy(o, k) == Has(o, k) /\ o[k] # EmptyStr

SetKey(o, k, v) == [j \in (DOMAIN o) \cup {k} |-> IF j = k THEN v ELSE o[j]]

\* The values a waitForResponse key of a body can hold, and String() of them.
WaitAbsent == "absent"

\* The JSON value null, as a body gives it; no string equals it.
Null == <<"(null)">>

WaitNull == "null"

\* The values of req.body.waitForResponse: absent, null, the booleans, and strings.
WaitValues == {"absent", "null", "false", "'false'", "true", "'true'", "'yes'"}

\* String(v) of a waitForResponse value that is present.
StringOfWait(w) ==
    CASE w = "false" -> <<"false">>
      [] w = "'false'" -> <<"false">>
      [] w = "true" -> <<"true">>
      [] w = "'true'" -> <<"true">>
      [] w = "'yes'" -> <<"yes">>

\* String(req.body.waitForResponse || 'true') === 'true': false counts as absent.
WaitForResponseFlag_Or(w) ==
    (IF w \in {WaitAbsent, WaitNull, "false"} THEN <<"true">> ELSE StringOfWait(w)) = <<"true">>

\* String(req.body.waitForResponse ?? 'true') === 'true'
WaitForResponseFlag(w) ==
    (IF w \in {WaitAbsent, WaitNull} THEN <<"true">> ELSE StringOfWait(w)) = <<"true">>

\* An environment update without the test for null: String(null) is written.
MergeBody_NullsWritten(e, b, w) ==
    LET e1 == [k \in (DOMAIN e) \cup (DOMAIN b) |->
                IF k \in DOMAIN b THEN (IF b[k] = Null THEN <<"null">> ELSE b[k]) ELSE e[k]]
    IN  IF w \in {WaitAbsent, WaitNull} THEN e1
        ELSE SetKey(e1, "waitForResponse", StringOfWait(w))

\* Object.keys(req.body).forEach(key => { if (req.body[key] !== undefined &&
\* req.body[key] !== null) process.env[key] = String(req.body[key]) })
MergeBody(e, b, w) ==
    LET given == {k \in DOMAIN b : b[k] # Null}
        e1 == [k \in (DOMAIN e) \cup given |-> IF k \in given THEN b[k] ELSE e[k]]
    IN  IF w \in {WaitAbsent, WaitNull} THEN e1
        ELSE SetKey(e1, "waitForResponse", StringOfWait(w))

----------------------------------------------------------------------------
\* CONFIG.ticketDetails

DiscountPipe == <<"Discount Pipe & Steel">>

SampleTitle == <<"Sample">>

DefaultLogNote == <<"Email received from customer">>

ThisIsATask == <<"this is a task">>

DefaultTicketDetails ==
    [title |-> SampleTitle,
     customer |-> DiscountPipe,
     description |-> EmptyStr,
     logNote |-> DefaultLogNote]

\* CONFIG.credentials defaults.
DefaultEmail == <<"sahajkatiyareoxs@gmail.com">>

DefaultPassword == <<"Eoxs12345!">>

\* A CONFIG whose credentials ignore the environment.
LoadConfig_DefaultsOnly(e) ==
    [title |-> DefaultTicketDetails.title,
     customer |-> DefaultTicketDetails.customer,
     description |-> DefaultTicketDetails.description,
     logNote |-> DefaultTicketDetails.logNote,
     email |-> DefaultEmail,
     password |-> DefaultPassword]

\* const CONFIG = {...}: evaluated once, when the module is loaded, in environment e.
LoadConfig(e) ==
    [title |-> DefaultTicketDetails.title,
     customer |-> DefaultTicketDetails.customer,
     description |-> DefaultTicketDetails.description,
     logNote |-> DefaultTicketDetails.logNote,
     email |-> IF Truthy(e, "EOXS_EMAIL") THEN e["EOXS_EMAIL"] ELSE DefaultEmail,
     password |-> IF Truthy(e, "EOXS_PASSWORD") THEN e["EOXS_PASSWORD"] ELSE DefaultPassword]

\* updateTicketDetailsFromEnv() without its TICKET_TITLE branch.
UpdateTicketDetailsFromEnv_NoTicketTitle(c, e) ==
    LET c1 == IF Truthy(e, "EMAIL_SUBJECT") THEN [c EXCEPT !.title = e["EMAIL_SUBJECT"]] ELSE c
        c2 == IF Truthy(e, "EMAIL_CUSTOMER") THEN [c1 EXCEPT !.customer = e["EMAIL_CUSTOMER"]] ELSE c1
        c3 == IF Truthy(e, "EMAIL_BODY")
              THEN [c2 EXCEPT !.description = e["EMAIL_BODY"], !.logNote = e["EMAIL_BODY"]]
              ELSE c2
    IN  IF Truthy(e, "LOG_NOTE")
        THEN [c3 EXCEPT !.logNote = e["LOG_NOTE"]]
        ELSE IF Truthy(e, "EMAIL_SUBJECT") THEN [c3 EXCEPT !.logNote = e["EMAIL_SUBJECT"]] ELSE c3

\* The constructor's updateTicketDetailsFromEnv().
UpdateTicketDetailsFromEnv(c, e) ==
    LET c1 == IF Truthy(e, "EMAIL_SUBJECT") THEN [c EXCEPT !.title = e["EMAIL_SUBJECT"]] ELSE c
        c2 == IF Truthy(e, "EMAIL_CUSTOMER") THEN [c1 EXCEPT !.customer = e["EMAIL_CUSTOMER"]] ELSE c1
        c3 == IF Truthy(e, "EMAIL_BODY")
              THEN [c2 EXCEPT !.description = e["EMAIL_BODY"], !.logNote = e["EMAIL_BODY"]]
              ELSE c2
        c4 == IF Truthy(e, "TICKET_TITLE") THEN [c3 EXCEPT !.title = e["TICKET_TITLE"]] ELSE c3
    IN  IF Truthy(e, "LOG_NOTE")
        THEN [c4 EXCEPT !.logNote = e["LOG_NOTE"]]
        ELSE IF Truthy(e, "EMAIL_SUBJECT") THEN [c4 EXCEPT !.logNote = e["EMAIL_SUBJECT"]] ELSE c4

\* run(): emailSubject = process.env.EMAIL_SUBJECT; updateDescriptionFromEmail(emailSubject)
UpdateDescriptionFromEmail(c, e) ==
    IF Truthy(e, "EMAIL_SUBJECT") THEN [c EXCEPT !.description = e["EMAIL_SUBJECT"]] ELSE c

\* A mode test that looks at TICKET_TITLE alone.
LogNoteOnlyMode_TitleAlone(e) == Truthy(e, "TICKET_TITLE")

\* run(): Boolean(TICKET_TITLE && (LOG_NOTE || EMAIL_SUBJECT))
LogNoteOnlyMode(e) ==
    Truthy(e, "TICKET_TITLE") /\ (Truthy(e, "LOG_NOTE") \/ Truthy(e, "EMAIL_SUBJECT"))

\* run(): the title and log note installed in log-note-only mode.
ApplyLogNoteOnly(c, e) ==
    IF LogNoteOnlyMode(e)
    THEN [c EXCEPT
            !.title = IF Truthy(e, "TICKET_TITLE") THEN e["TICKET_TITLE"] ELSE c.title,
            !.logNote = IF Truthy(e, "LOG_NOTE") THEN e["LOG_NOTE"]
                        ELSE IF Truthy(e, "EMAIL_SUBJECT") THEN e["EMAIL_SUBJECT"]
                        ELSE c.logNote]
    ELSE c

----------------------------------------------------------------------------
\* The target web page, as far as the run looks at it

\* An element of the kanban page: a ticket card or anything else with text.
CardTX == [card |-> TRUE, text |-> <<"T", "x">>]

CardX == [card |-> TRUE, text |-> <<"x">>]

CardS == [card |-> TRUE, text |-> <<"s">>]

LinkT == [card |-> FALSE, text |-> <<"t">>]

Elements == {CardTX, CardX, CardS, LinkT}

\* Largest number of elements on a kanban page.
MaxBoard == 2

Boards == {b \in SUBSET Elements : Cardinality(b) <= MaxBoard}

\* The option texts a customer dropdown can show.
OptionC == <<"c">>

OptionDiscountAmy == <<"Discount Pipe & Steel", ",", "AMY">>

CustomerOptions == {OptionC, DiscountPipe, OptionDiscountAmy}

\* Largest number of options in the customer dropdown.
MaxOptions == 2

Dropdowns == {d \in SUBSET CustomerOptions : Cardinality(d) <= MaxOptions}

\* What isVisible() does for one selector of a fallback chain: it answers false,
\* answers true, or throws.
VisStates == {"hidden", "visible", "throws"}

\* Number of selectors in a fallback chain.
MaxChain == 2

\* What a page can show to the selectors of a chain, one entry per selector.
ChainPages == [1..MaxChain -> VisStates]

\* A page on which no selector of the chain is visible.
AllHidden == [i \in 1..MaxChain |-> "hidden"]

\* A page on which the first selector of the chain is visible, and only that one.
FirstVisible == [i \in 1..MaxChain |-> IF i = 1 THEN "visible" ELSE "hidden"]

\* login(): for (let attempt = 1; attempt <= 3; attempt++)
NavigationAttempts == 3

\* What page.goto does at each attempt: TRUE when the page loads, FALSE when it throws.
LoadOutcomes == [1..NavigationAttempts -> BOOLEAN]

AlwaysLoads == [i \in 1..NavigationAttempts |-> TRUE]

NeverLoads == [i \in 1..NavigationAttempts |-> FALSE]

\* A site whose page has the ticket of the log-note body, the ticket of the creation
\* body, and both customers, shows a chain its first selector or none, and is up
\* or down.
PlainSite ==
    [board |-> {CardTX, CardS}, options |-> {OptionC, DiscountPipe},
     pages |-> {AllHidden, FirstVisible}, loads |-> {AlwaysLoads, NeverLoads}]

\* The web sites a process may talk to: the elements of its kanban page and the
\* options of its customer dropdown. No step looks at both, so the sites vary the
\* page under the plain dropdown and the dropdown under the plain page.
Sites ==
    {[PlainSite EXCEPT !.board = b] : b \in Boards}
        \cup {[PlainSite EXCEPT !.options = d] : d \in Dropdowns}

----------------------------------------------------------------------------
\* Results, answers and records

NullTime == 0

NullResult == [isNull |-> TRUE, success |-> FALSE, error |-> "", ticketId |-> ""]

Success(tid) == [isNull |-> FALSE, success |-> TRUE, error |-> "", ticketId |-> tid]

\* run()'s catch: return { success: false, error: error.message }
Failure(msg) == [isNull |-> FALSE, success |-> FALSE, error |-> msg, ticketId |-> ""]

NoAnswer ==
    [code |-> 0, success |-> FALSE, accepted |-> FALSE, error |-> "",
     jobId |-> 0, data |-> NullResult]

\* A selector chain that has not been run.
NoChain == [name |-> "", vis |-> <<>>, tried |-> <<>>, acted |-> <<>>, done |-> FALSE]

\* A navigation loop that has not been run.
NoNav == [loads |-> <<>>, gotos |-> 0, loaded |-> FALSE, broke |-> FALSE]

\* What the most recent step of a run did to the page. nav: the page loads it
\* attempted; chain: the selector chain it ran most recently.
NoEffect ==
    [step |-> "", title |-> {}, desc |-> {}, note |-> {}, customer |-> {},
     selected |-> {}, email |-> {}, password |-> {}, clicked |-> FALSE, returned |-> FALSE,
     nav |-> NoNav, chain |-> NoChain]

IdleReq ==
    [pc |-> "idle", body |-> EmptyObj, wait |-> WaitAbsent, originalEnv |-> EmptyObj,
     envSeen |-> EmptyObj, jobId |-> 0, mode |-> "", browser |-> "none", page |-> FALSE,
     steps |-> <<>>, shots |-> <<>>, failed |-> {}, last |-> NoEffect,
     submitted |-> FALSE, posted |-> FALSE, opened |-> {}, ticketId |-> "",
     result |-> NullResult, threw |-> FALSE, response |-> NoAnswer]

InFlight(q) == q.pc \notin {"idle", "done"}

\* The run of q has ended: run() has returned or rejected.
RunEnded(q) == q.pc \in {"returned", "done"}

----------------------------------------------------------------------------
\* Request bodies

ValueOf(k) ==
    CASE k = "EMAIL_SUBJECT" -> <<"s">>
      [] k = "EMAIL_CUSTOMER" -> <<"c">>
      [] k = "EMAIL_BODY" -> <<"b">>
      [] k = "TICKET_TITLE" -> <<"t">>
      [] k = "LOG_NOTE" -> <<"l">>
      [] k = "EOXS_EMAIL" -> <<"e">>
      [] k = "EOXS_PASSWORD" -> <<"p">>
      [] k = "NODE_ENV" -> <<"production">>

BodyKeys == {"EMAIL_SUBJECT", "EMAIL_CUSTOMER", "EMAIL_BODY", "TICKET_TITLE", "LOG_NOTE"}

BodyOver(K) == [k \in K |-> ValueOf(k)]

\* A body that carries the credentials.
CredentialBody == BodyOver({"EOXS_EMAIL", "EOXS_PASSWORD"})

\* Every choice of keys, the bodies that give TICKET_TITLE the empty string, and
\* the body with the credentials.
RunBodies ==
    {BodyOver(K) : K \in SUBSET BodyKeys}
        \cup {SetKey(BodyOver(K), "TICKET_TITLE", EmptyStr) : K \in SUBSET {"LOG_NOTE", "EMAIL_SUBJECT"}}
        \cup {CredentialBody}

\* The two bodies of the README: ticket creation and log note only.
CreationBody == BodyOver({"EMAIL_SUBJECT", "EMAIL_CUSTOMER", "EMAIL_BODY"})

LogNoteBody == BodyOver({"TICKET_TITLE", "LOG_NOTE"})

ServerBodies == {CreationBody, LogNoteBody}

ServerWaits == {"absent", "false"}

----------------------------------------------------------------------------
\* Error messages of run()

ErrLaunch == "browserType.launch failed"

ErrNewPage == "browser.newContext failed"

ErrLogin == "Login failed"

ErrNavigate == "Failed to navigate to Projects and select Test Support"

ErrNotFound == "Ticket not found"

ErrLogNote == "Failed to add log note"

ErrCreate == "Failed to click Create"

ErrFill == "Failed to fill ticket form"

ErrSubmit == "Failed to submit ticket"

ErrClickTicket == "Failed to click on created ticket"

ErrClose == "browser.close failed"

----------------------------------------------------------------------------
\* Pieces of run()

Step(q, name) == [q EXCEPT !.steps = Append(@, name)]

\* The step just executed reported failure (it returned false or threw).
Failed(q) == [q EXCEPT !.failed = @ \cup {q.steps[Len(q.steps)]}]

\* captureScreenshot(name): page.screenshot needs a page.
Shot(q, name) == IF q.page THEN [q EXCEPT !.shots = Append(@, name)] ELSE q

\* run()'s catch block: screenshot 'error', return the failure; then finally.
Fail(q, msg) == [Shot(q, "error") EXCEPT !.result = Failure(msg), !.pc = "close"]

\* A return of run() from inside the try block; then finally.
Return(q, res) == [q EXCEPT !.result = res, !.pc = "close"]

\* openTicketByTitle: the elements its selectors find and its text check accepts.
\* The first five selectors find cards, the last one (text=title) any element.
OpenCandidates(board, t) ==
    {el \in board :
        /\ el.text # EmptyStr
        /\ Includes(ToLowerCase(el.text), ToLowerCase(t))}

\* clickOnCreatedTicket: the elements found by title (or by 'Sample').
CreatedCandidates(board, t) ==
    {el \in board : Includes(el.text, t) \/ Includes(el.text, SampleTitle)}

\* clickOnCreatedTicket: the fallback clicks the first card, whatever its title.
FallbackCandidates(board) == {el \in board : el.card}

AtMostOne(S) == {{}} \cup {{x} : x \in S}

\* editTicketDetails: the option texts its check accepts as the customer.
AcceptCustomerOption(text) ==
    \/ text = DiscountPipe
    \/ /\ Includes(text, DiscountPipe)
       /\ ~Includes(text, <<",">>)
       /\ ~Includes(text, <<"AMY">>)
       /\ ~Includes(text, <<"AUSTIN">>)
       /\ ~Includes(text, <<"SKYE">>)

\* editTicketDetails: what it can do to the customer field, given CONFIG's customer.
\* customer: the text typed into the field; selected: the option chosen.
\* No field found; a <select> (selectOption by label); an option clicked in the open
\* dropdown; the fixed name typed and an option clicked; the fixed name typed and
\* ArrowDown + Enter pressed, which takes whatever the dropdown offers.
CustomerEffects(cust, options) ==
    {[customer |-> {}, selected |-> {}]}
        \cup {[customer |-> {}, selected |-> {cust}]}
        \cup {[customer |-> {}, selected |-> {o}] :
                o \in {x \in options : AcceptCustomerOption(x)}}
        \cup {[customer |-> {DiscountPipe}, selected |-> {o}] :
                o \in {x \in options : AcceptCustomerOption(x)}}
        \cup {[customer |-> {DiscountPipe}, selected |-> sel] :
                sel \in AtMostOne(options)}

\* editTicketDetails: the description it types.
EditDescription == ThisIsATask

\* A chain about to be run on a page that shows vis to its selectors.
StartChain(name, vis) == [NoChain EXCEPT !.name = name, !.vis = vis]

\* for (const selector of selectors) { try { if (await isVisible(selector)) {
\*   await this.clickElement(selector); flag = true; break } } catch { continue } }
\* clickElement does not throw. t.tried: the selectors whose visibility was asked,
\* t.acted: the selectors clickElement was called on, t.done: the flag.
RECURSIVE ClickChain(_, _)
ClickChain(t, i) ==
    IF i > Len(t.vis) THEN t
    ELSE LET t1 == [t EXCEPT !.tried = Append(@, i)]
         IN  IF t.vis[i] = "visible"
             THEN [t1 EXCEPT !.acted = Append(@, i), !.done = TRUE]
             ELSE ClickChain(t1, i + 1)

\* What clearAndType does on each selector of a chain: TRUE when it types, FALSE
\* when it throws.
TypeOutcomes == [1..MaxChain -> BOOLEAN]

\* for (const selector of selectors) { try { if (await isVisible(selector)) {
\*   await this.clearAndType(selector, text); flag = true; break } } catch { continue } }
\* clearAndType rethrows, and the catch of the loop goes on to the next selector.
RECURSIVE TypeChain(_, _, _)
TypeChain(t, typ, i) ==
    IF i > Len(t.vis) THEN t
    ELSE LET t1 == [t EXCEPT !.tried = Append(@, i)]
         IN  IF t.vis[i] = "visible"
             THEN IF typ[i]
                  THEN [t1 EXCEPT !.acted = Append(@, i), !.done = TRUE]
                  ELSE TypeChain([t1 EXCEPT !.acted = Append(@, i)], typ, i + 1)
             ELSE TypeChain(t1, typ, i + 1)

\* The outcome of a step that clicks through a chain and falls back on an XPath
\* click: clickOk is what clickElement returned, xpathOk whether the XPath click
\* went through.
ChainOutcome(t, clickOk, xpathOk) ==
    IF t.done THEN (IF clickOk THEN "clicked" ELSE "silent")
    ELSE IF xpathOk THEN "xpath" ELSE "none"

\* login(): the navigation loop on a site whose page.goto does loads[i] at its
\* i-th call; pause: whether the waitForTimeout between two calls returns (it
\* throws when the page is gone, and login() then returns false). gotos: the calls
\* made; loaded: whether one went through (if none did, the third failure is
\* thrown); broke: the loop was left because the pause threw.
RECURSIVE Navigate(_, _, _)
Navigate(loads, pause, attempt) ==
    LET made(ok, br) == [loads |-> loads, gotos |-> attempt, loaded |-> ok, broke |-> br]
    IN  IF attempt > NavigationAttempts THEN [made(FALSE, FALSE) EXCEPT !.gotos = attempt - 1]
        ELSE IF loads[attempt] THEN made(TRUE, FALSE)
        ELSE IF attempt = NavigationAttempts THEN made(FALSE, FALSE)
        ELSE IF ~pause THEN made(FALSE, TRUE)
        ELSE Navigate(loads, pause, attempt + 1)

\* The outcomes of a step that clicks through a selector chain:
\* "clicked": a selector was visible and clickElement clicked it;
\* "silent": a selector was visible and clickElement returned false;
\* "xpath": no selector was visible and the XPath click succeeded;
\* "none": no selector was visible and the XPath click threw.
ChainOutcomes == {"clicked", "silent", "xpath", "none"}

\* createClicked / submitClicked: the flag the step records.
ChainFlag(o) == o \in {"clicked", "silent", "xpath"}

\* Whether a control was really clicked.
ChainClicked(o) == o \in {"clicked", "xpath"}

\* run(): the final result of the default flow.
FinalResult(tid) == Success(tid)

\* run(): what a failed addLogNote does in each mode.
LogNoteFailureIsFatal(mode) == mode = "lognote"

----------------------------------------------------------------------------
\* The job store and the answers of the HTTP layer

\* A job record that starts out 'pending'.
NewJob_Pending(id, now) ==
    [id |-> id, status |-> "pending", createdAt |-> now,
     result |-> NullResult, completedAt |-> NullTime]

\* jobs.set(jobId, { id, status: 'running', createdAt, result: null, completedAt: null })
NewJob(id, now) ==
    [id |-> id, status |-> "running", createdAt |-> now,
     result |-> NullResult, completedAt |-> NullTime]

\* An id generator that hands out the most recent id again.
FreshJobId_LastAgain(js) == IF js = <<>> THEN 1 ELSE Len(js)

\* uuidv4(): an id no job has.
FreshJobId(js) == Len(js) + 1

\* A background runner that sets status and result and leaves completedAt null.
SettleJob_NoCompletedAt(job, res, rejected, now) ==
    IF rejected
    THEN [job EXCEPT !.status = "failed", !.result = Failure(ErrClose)]
    ELSE [job EXCEPT !.status = "completed", !.result = res]

\* The background runner's try branch (run() returned) and catch branch.
SettleJob(job, res, rejected, now) ==
    IF rejected
    THEN [job EXCEPT !.status = "failed", !.result = Failure(ErrClose), !.completedAt = now]
    ELSE [job EXCEPT !.status = "completed", !.result = res, !.completedAt = now]

NoStatus ==
    [code |-> 0, success |-> FALSE, error |-> "", jobId |-> 0, status |-> "",
     result |-> NullResult, createdAt |-> NullTime, completedAt |-> NullTime,
     durationNull |-> TRUE, duration |-> 0]

\* A status route without its 404 branch.
StatusAnswer_NoNotFound(js, j) ==
    IF j \notin DOMAIN js
    THEN [NoStatus EXCEPT !.code = 200, !.jobId = j, !.status = "running"]
    ELSE [NoStatus EXCEPT
            !.code = 200, !.jobId = j,
            !.status = js[j].status,
            !.result = js[j].result,
            !.createdAt = js[j].createdAt,
            !.completedAt = js[j].completedAt,
            !.durationNull = (js[j].completedAt = NullTime),
            !.duration = IF js[j].completedAt = NullTime THEN 0
                         ELSE js[j].completedAt - js[j].createdAt]

\* app.get('/status/:jobId')
StatusAnswer(js, j) ==
    IF j \notin DOMAIN js
    THEN [NoStatus EXCEPT !.code = 404, !.error = "Job not found", !.jobId = j]
    ELSE [NoStatus EXCEPT
            !.code = 200, !.jobId = j,
            !.status = js[j].status,
            !.result = js[j].result,
            !.createdAt = js[j].createdAt,
            !.completedAt = js[j].completedAt,
            !.durationNull = (js[j].completedAt = NullTime),
            !.duration = IF js[j].completedAt = NullTime THEN 0
                         ELSE js[j].completedAt - js[j].createdAt]

\* The 202 answer of the background branch.
AcceptedAnswer(id) == [NoAnswer EXCEPT !.code = 202, !.accepted = TRUE, !.jobId = id]

\* A blocking answer whose success flag is always true.
BlockingAnswer_AlwaysOk(res) == [NoAnswer EXCEPT !.code = 200, !.success = TRUE, !.data = res]

\* The answer of the blocking branch after run() returned.
BlockingAnswer(res) == [NoAnswer EXCEPT !.code = 200, !.success = res.success, !.data = res]

\* The answer of the handler's catch block.
ErrorAnswer(msg) == [NoAnswer EXCEPT !.code = 500, !.success = FALSE, !.error = msg]

\* if (process.env.NODE_ENV === 'production') process.env.HEADLESS = 'true'
ForceHeadless(e) ==
    IF Has(e, "NODE_ENV") /\ e["NODE_ENV"] = <<"production">>
    THEN SetKey(e, "HEADLESS", <<"true">>)
    ELSE e

----------------------------------------------------------------------------
\* Actions

Init ==
    /\ env = EmptyObj
    /\ config = LoadConfig(EmptyObj)
    /\ jobs = <<>>
    /\ reqs = [r \in ReqIds |-> IdleReq]
    /\ clock = 1
    /\ lastStatus = NoStatus
    /\ site = PlainSite

\* POST /automate up to its first await: the environment update, the job record and
\* the 202 answer of a background request, the constructor, and the start of run().
Automate(r, b, w) ==
    /\ reqs[r].pc = "idle"
    /\ \A k \in 1..(r - 1) : reqs[k].pc # "idle"
    /\ LET e1 == ForceHeadless(MergeBody(env, b, w))
           bg == ~WaitForResponseFlag(w)
           id == FreshJobId(jobs)
           q  == [IdleReq EXCEPT
                    !.pc = "init", !.body = b, !.wait = w,
                    !.originalEnv = env, !.envSeen = e1,
                    !.jobId = IF bg THEN id ELSE 0,
                    !.response = IF bg THEN AcceptedAnswer(id) ELSE NoAnswer]
       IN  /\ env' = e1
           /\ config' = UpdateTicketDetailsFromEnv(config, e1)
           /\ jobs' = IF bg THEN Append(jobs, NewJob(id, clock)) ELSE jobs
           /\ clock' = IF bg THEN clock + 1 ELSE clock
           /\ reqs' = [reqs EXCEPT ![r] = q]
    /\ UNCHANGED <<lastStatus, site>>

\* init() ends; on success run() fixes the description and the mode and starts login().
InitDone(r) ==
    /\ reqs[r].pc = "init"
    /\ \E o \in {"ok", "noLaunch", "noPage"} :
        LET q0 == Step(reqs[r], "init")
        IN  CASE o = "ok" ->
                   /\ config' = ApplyLogNoteOnly(UpdateDescriptionFromEmail(config, env), env)
                   /\ reqs' = [reqs EXCEPT ![r] =
                        [q0 EXCEPT !.browser = "open", !.page = TRUE, !.pc = "login",
                                   !.mode = IF LogNoteOnlyMode(env) THEN "lognote" ELSE "create"]]
              [] o = "noLaunch" ->
                   /\ config' = config
                   /\ reqs' = [reqs EXCEPT ![r] = Fail(Failed(q0), ErrLaunch)]
              [] o = "noPage" ->
                   /\ config' = config
                   /\ reqs' = [reqs EXCEPT ![r] =
                        Fail(Failed([q0 EXCEPT !.browser = "open"]), ErrNewPage)]
    /\ UNCHANGED <<env, jobs, clock, lastStatus, site>>

\* A login() that goes on to the login form when the page did not load.
LoginNavigate_GoesOn(r) ==
    /\ reqs[r].pc = "login"
    /\ \E loads \in site.loads, pause \in BOOLEAN :
        LET n  == Navigate(loads, pause, 1)
            q0 == Step(reqs[r], "login")
            q1 == [q0 EXCEPT !.last = [NoEffect EXCEPT !.step = "login", !.nav = n]]
        IN  reqs' = [reqs EXCEPT ![r] = [q1 EXCEPT !.pc = "loginTrigger"]]
    /\ UNCHANGED <<env, config, jobs, clock, lastStatus, site>>

\* login(), first part: load the base URL, with retries. run() turns every false
\* of login() into the error 'Login failed'.
LoginNavigate(r) ==
    /\ reqs[r].pc = "login"
    /\ \E loads \in site.loads, pause \in BOOLEAN :
        LET n  == Navigate(loads, pause, 1)
            q0 == Step(reqs[r], "login")
            q1 == [q0 EXCEPT !.last = [NoEffect EXCEPT !.step = "login", !.nav = n]]
        IN  reqs' = [reqs EXCEPT ![r] =
                IF n.loaded THEN [q1 EXCEPT !.pc = "loginTrigger"]
                ELSE Fail(Failed(q1), ErrLogin)]
    /\ UNCHANGED <<env, config, jobs, clock, lastStatus, site>>

\* login(): the login trigger chain; with no trigger clicked it forces the popup
\* open, which does not throw.
LoginTrigger(r) ==
    /\ reqs[r].pc = "loginTrigger"
    /\ \E vis \in site.pages :
        LET t == ClickChain(StartChain("loginTrigger", vis), 1)
        IN  reqs' = [reqs EXCEPT ![r] =
                [reqs[r] EXCEPT !.last.chain = t, !.pc = "loginEmail"]]
    /\ UNCHANGED <<env, config, jobs, clock, lastStatus, site>>

\* login(): the e-mail field chain types CONFIG.credentials.email; with no field
\* filled login() throws and returns false.
LoginEmail(r) ==
    /\ reqs[r].pc = "loginEmail"
    /\ \E vis \in site.pages, typ \in TypeOutcomes :
        LET t  == TypeChain(StartChain("email", vis), typ, 1)
            q1 == [reqs[r] EXCEPT
                     !.last.chain = t,
                     !.last.email = IF t.acted # <<>> THEN {config.email} ELSE {}]
        IN  reqs' = [reqs EXCEPT ![r] =
                IF t.done THEN [q1 EXCEPT !.pc = "loginPassword"]
                ELSE Fail(Failed(q1), ErrLogin)]
    /\ UNCHANGED <<env, config, jobs, clock, lastStatus, site>>

\* login(): the password field chain types CONFIG.credentials.password.
LoginPassword(r) ==
    /\ reqs[r].pc = "loginPassword"
    /\ \E vis \in site.pages, typ \in TypeOutcomes :
        LET t  == TypeChain(StartChain("password", vis), typ, 1)
            q1 == [reqs[r] EXCEPT
                     !.last.chain = t,
                     !.last.password = IF t.acted # <<>> THEN {config.password} ELSE {}]
        IN  reqs' = [reqs EXCEPT ![r] =
                IF t.done THEN [q1 EXCEPT !.pc = "loginSubmit"]
                ELSE Fail(Failed(q1), ErrLogin)]
    /\ UNCHANGED <<env, config, jobs, clock, lastStatus, site>>

\* login(), last part: submit the form and look at the page that follows.
LoginSubmit(r) ==
    /\ reqs[r].pc = "loginSubmit"
    /\ \E ok \in BOOLEAN :
        LET q1 == [reqs[r] EXCEPT !.last.returned = ok]
        IN  reqs' = [reqs EXCEPT ![r] =
                IF ok THEN [Shot(q1, "after_login") EXCEPT !.pc = "nav"]
                ELSE Fail(Failed(q1), ErrLogin)]
    /\ UNCHANGED <<env, config, jobs, clock, lastStatus, site>>

\* login(), from one await to the next.
Login(r) ==
    \/ LoginNavigate(r)
    \/ LoginTrigger(r)
    \/ LoginEmail(r)
    \/ LoginPassword(r)
    \/ LoginSubmit(r)

NavigateToProjects(r) ==
    /\ reqs[r].pc = "nav"
    /\ \E ok \in BOOLEAN :
        LET q0 == [Step(reqs[r], "navigate") EXCEPT
                     !.last = [NoEffect EXCEPT !.step = "navigate", !.returned = ok]]
        IN  reqs' = [reqs EXCEPT ![r] =
                IF ok
                THEN [Shot(q0, "after_test_support_selection") EXCEPT
                        !.pc = IF q0.mode = "lognote" THEN "open" ELSE "create"]
                ELSE Fail(Failed(q0), ErrNavigate)]
    /\ UNCHANGED <<env, config, jobs, clock, lastStatus, site>>

\* openTicketByTitle(CONFIG.ticketDetails.title) in log-note-only mode.
OpenTicketByTitle(r) ==
    /\ reqs[r].pc = "open"
    /\ \E op \in AtMostOne(OpenCandidates(site.board, config.title)) :
        LET q0 == Step(reqs[r], "openTicket")
            q1 == [q0 EXCEPT
                     !.opened = op,
                     !.last = [NoEffect EXCEPT !.step = "openTicket", !.title = {config.title},
                                 !.clicked = (op # {}), !.returned = (op # {})]]
        IN  reqs' = [reqs EXCEPT ![r] =
                IF op # {}
                THEN [Shot(q1, "after_open_existing_ticket") EXCEPT !.pc = "note"]
                ELSE Fail(Failed(q1), ErrNotFound)]
    /\ UNCHANGED <<env, config, jobs, clock, lastStatus, site>>

ClickCreate(r) ==
    /\ reqs[r].pc = "create"
    /\ \E vis \in site.pages, clickOk \in BOOLEAN, xpathOk \in BOOLEAN :
        LET t  == ClickChain(StartChain("create", vis), 1)
            o  == ChainOutcome(t, clickOk, xpathOk)
            q0 == Step(reqs[r], "clickCreate")
            q1 == [q0 EXCEPT
                     !.last = [NoEffect EXCEPT !.step = "clickCreate", !.chain = t,
                                 !.clicked = ChainClicked(o), !.returned = ChainFlag(o)]]
        IN  reqs' = [reqs EXCEPT ![r] =
                IF ChainFlag(o) THEN [Shot(q1, "after_create") EXCEPT !.pc = "fill"]
                ELSE Fail(Failed(q1), ErrCreate)]
    /\ UNCHANGED <<env, config, jobs, clock, lastStatus, site>>

\* fillTicketForm: it returns true whether or not a field was found; false when it threw.
FillTicketForm(r) ==
    /\ reqs[r].pc = "fill"
    /\ \E o \in {"threw", "nothing", "title", "all"} :
        LET q0 == Step(reqs[r], "fillTicketForm")
            q1 == [q0 EXCEPT
                     !.last = [NoEffect EXCEPT
                        !.step = "fillTicketForm",
                        !.title = IF o \in {"title", "all"} THEN {config.title} ELSE {},
                        !.desc = IF o = "all" /\ config.description # EmptyStr
                                 THEN {config.description} ELSE {},
                        !.returned = (o # "threw")]]
        IN  reqs' = [reqs EXCEPT ![r] =
                IF o # "threw" THEN [Shot(q1, "after_form_fill") EXCEPT !.pc = "submit"]
                ELSE Fail(Failed(q1), ErrFill)]
    /\ UNCHANGED <<env, config, jobs, clock, lastStatus, site>>

SubmitTicket(r) ==
    /\ reqs[r].pc = "submit"
    /\ \E vis \in site.pages, clickOk \in BOOLEAN, xpathOk \in BOOLEAN, tid \in {"", "id"} :
        LET t  == ClickChain(StartChain("submit", vis), 1)
            o  == ChainOutcome(t, clickOk, xpathOk)
            q0 == Step(reqs[r], "submitTicket")
            q1 == [q0 EXCEPT
                     !.submitted = ChainClicked(o),
                     !.ticketId = IF ChainFlag(o) THEN tid ELSE "",
                     !.last = [NoEffect EXCEPT !.step = "submitTicket", !.chain = t,
                                 !.clicked = ChainClicked(o), !.returned = ChainFlag(o)]]
        IN  /\ ChainFlag(o) \/ tid = ""
            /\ reqs' = [reqs EXCEPT ![r] =
                IF ChainFlag(o) THEN [Shot(q1, "after_submit") EXCEPT !.pc = "popup"]
                ELSE Fail(Failed(q1), ErrSubmit)]
    /\ UNCHANGED <<env, config, jobs, clock, lastStatus, site>>

\* closePopupWithDiscard: its result is not looked at.
ClosePopupWithDiscard(r) ==
    /\ reqs[r].pc = "popup"
    /\ reqs' = [reqs EXCEPT ![r] = [Step(reqs[r], "closePopup") EXCEPT !.pc = "click"]]
    /\ UNCHANGED <<env, config, jobs, clock, lastStatus, site>>

\* clickOnCreatedTicket: by title, else the first card of the page.
ClickOnCreatedTicket(r) ==
    /\ reqs[r].pc = "click"
    /\ \E op \in AtMostOne(CreatedCandidates(site.board, config.title)
                                \cup FallbackCandidates(site.board)) :
        LET q0 == Step(reqs[r], "clickOnCreatedTicket")
            q1 == [q0 EXCEPT
                     !.opened = op,
                     !.last = [NoEffect EXCEPT !.step = "clickOnCreatedTicket",
                                 !.title = {config.title},
                                 !.clicked = (op # {}), !.returned = (op # {})]]
        IN  reqs' = [reqs EXCEPT ![r] =
                IF op # {} THEN [q1 EXCEPT !.pc = "edit"]
                ELSE Fail(Failed(q1), ErrClickTicket)]
    /\ UNCHANGED <<env, config, jobs, clock, lastStatus, site>>

\* editTicketDetails: run() goes on whatever it returns.
EditTicketDetails(r) ==
    /\ reqs[r].pc = "edit"
    /\ \E eff \in CustomerEffects(config.customer, site.options), typedDesc \in BOOLEAN, ok \in BOOLEAN :
        LET q0 == Step(reqs[r], "editTicketDetails")
            q1 == [q0 EXCEPT
                     !.last = [NoEffect EXCEPT !.step = "editTicketDetails",
                                 !.customer = eff.customer, !.selected = eff.selected,
                                 !.desc = IF typedDesc THEN {EditDescription} ELSE {},
                                 !.returned = ok]]
        IN  /\ ok \/ ~typedDesc
            /\ reqs' = [reqs EXCEPT ![r] =
                    [Shot(IF ok THEN q1 ELSE Failed(q1), "after_ticket_edit") EXCEPT !.pc = "note"]]
    /\ UNCHANGED <<env, config, jobs, clock, lastStatus, site>>

\* addLogNote, and what run() does with its result in each mode.
\* "noButton": no Log Note selector was visible; "noTextArea": none to type in;
\* "noSubmit": the note was typed and no Log button could be clicked; "posted".
AddLogNote(r) ==
    /\ reqs[r].pc = "note"
    /\ \E vis \in site.pages, o \in {"noButton", "noTextArea", "noSubmit", "posted"},
          click \in BOOLEAN :
        LET t  == ClickChain(StartChain("logNote", vis), 1)
            q0 == Step(reqs[r], "addLogNote")
            q1 == [q0 EXCEPT
                     !.posted = (o = "posted"),
                     !.last = [NoEffect EXCEPT !.step = "addLogNote", !.chain = t,
                                 !.note = IF o \in {"noSubmit", "posted"} THEN {config.logNote} ELSE {},
                                 !.clicked = click, !.returned = (o = "posted")]]
        IN  /\ (o = "noButton") = ~t.done
            /\ click => t.done
            /\ reqs' = [reqs EXCEPT ![r] =
                IF o # "posted" /\ LogNoteFailureIsFatal(q0.mode)
                THEN Fail(Failed(q1), ErrLogNote)
                ELSE Return(Shot(IF o = "posted" THEN q1 ELSE Failed(q1), "after_log_note"),
                            IF q0.mode = "lognote" THEN Success("") ELSE FinalResult(q0.ticketId))]
    /\ UNCHANGED <<env, config, jobs, clock, lastStatus, site>>

\* A run that closes its browser at the end of the try block only: not after a
\* failed step.
CloseBrowser_OnSuccessOnly(r) ==
    /\ reqs[r].pc = "close"
    /\ reqs' = [reqs EXCEPT ![r] =
            [reqs[r] EXCEPT
                !.browser = IF @ = "open" /\ reqs[r].result.success THEN "closed" ELSE @,
                !.last = [NoEffect EXCEPT !.step = "closeBrowser"],
                !.pc = "returned"]]
    /\ UNCHANGED <<env, config, jobs, clock, lastStatus, site>>

\* run()'s finally block: browser.close() when a browser was launched; it may throw,
\* and run() then rejects instead of returning its result.
CloseBrowser(r) ==
    /\ reqs[r].pc = "close"
    /\ \E throws \in BOOLEAN :
        /\ throws => reqs[r].browser = "open"
        /\ reqs' = [reqs EXCEPT ![r] =
                [reqs[r] EXCEPT
                    !.browser = IF @ = "open" /\ ~throws THEN "closed" ELSE @,
                    !.threw = throws,
                    !.last = [NoEffect EXCEPT !.step = "closeBrowser"],
                    !.pc = "returned"]]
    /\ UNCHANGED <<env, config, jobs, clock, lastStatus, site>>

\* What is left of a request once its handler has finished.
Finished(q, answer) ==
    [IdleReq EXCEPT
        !.pc = "done", !.wait = q.wait, !.jobId = q.jobId, !.threw = q.threw,
        !.result = IF q.threw THEN NullResult ELSE q.result, !.response = answer]

\* A blocking branch without the handler's catch block: a run that rejects is
\* not answered.
Respond_NoCatch(r) ==
    /\ reqs[r].pc = "returned"
    /\ WaitForResponseFlag(reqs[r].wait)
    /\ ~reqs[r].threw
    /\ env' = reqs[r].originalEnv
    /\ reqs' = [reqs EXCEPT ![r] = Finished(reqs[r], BlockingAnswer(reqs[r].result))]
    /\ UNCHANGED <<config, jobs, clock, lastStatus, site>>

\* The blocking branch after await automation.run(): restore process.env and answer;
\* in the catch block originalEnv is out of scope and nothing is restored.
Respond(r) ==
    /\ reqs[r].pc = "returned"
    /\ WaitForResponseFlag(reqs[r].wait)
    /\ IF reqs[r].threw
       THEN /\ env' = env
            /\ reqs' = [reqs EXCEPT ![r] = Finished(reqs[r], ErrorAnswer(ErrClose))]
       ELSE /\ env' = reqs[r].originalEnv
            /\ reqs' = [reqs EXCEPT ![r] = Finished(reqs[r], BlockingAnswer(reqs[r].result))]
    /\ UNCHANGED <<config, jobs, clock, lastStatus, site>>

\* A background runner without its catch branch: a run that rejects settles nothing.
Settle_NoCatch(r) ==
    /\ reqs[r].pc = "returned"
    /\ ~WaitForResponseFlag(reqs[r].wait)
    /\ ~reqs[r].threw
    /\ jobs' = [jobs EXCEPT ![reqs[r].jobId] =
                    SettleJob(@, reqs[r].result, reqs[r].threw, clock)]
    /\ clock' = clock + 1
    /\ reqs' = [reqs EXCEPT ![r] = Finished(reqs[r], reqs[r].response)]
    /\ UNCHANGED <<env, config, lastStatus, site>>

\* The background runner after await automationBg.run().
Settle(r) ==
    /\ reqs[r].pc = "returned"
    /\ ~WaitForResponseFlag(reqs[r].wait)
    /\ jobs' = [jobs EXCEPT ![reqs[r].jobId] =
                    SettleJob(@, reqs[r].result, reqs[r].threw, clock)]
    /\ clock' = clock + 1
    /\ reqs' = [reqs EXCEPT ![r] = Finished(reqs[r], reqs[r].response)]
    /\ UNCHANGED <<env, config, lastStatus, site>>

\* GET /status/:jobId
GetStatus(j) ==
    /\ lastStatus' = StatusAnswer(jobs, j)
    /\ UNCHANGED <<env, config, jobs, reqs, clock, site>>

RunStep(r) ==
    \/ InitDone(r)
    \/ Login(r)
    \/ NavigateToProjects(r)
    \/ OpenTicketByTitle(r)
    \/ ClickCreate(r)
    \/ FillTicketForm(r)
    \/ SubmitTicket(r)
    \/ ClosePopupWithDiscard(r)
    \/ ClickOnCreatedTicket(r)
    \/ EditTicketDetails(r)
    \/ AddLogNote(r)
    \/ CloseBrowser(r)

\* The server under requests that may overlap.
Next ==
    \/ \E r \in ReqIds, b \in ServerBodies, w \in ServerWaits : Automate(r, b, w)
    \/ \E r \in ReqIds : RunStep(r)
    \/ \E r \in ReqIds : Respond(r)
    \/ \E r \in ReqIds : Settle(r)

Spec == Init /\ [][Next]_vars

NoneInFlight == \A r \in ReqIds : ~InFlight(reqs[r])

\* The server under requests that come one after the other, polled by GET /status
\* at any time.
NextStatus ==
    \/ \E r \in ReqIds, b \in ServerBodies, w \in ServerWaits :
            NoneInFlight /\ Automate(r, b, w)
    \/ \E r \in ReqIds : RunStep(r)
    \/ \E r \in ReqIds : Respond(r)
    \/ \E r \in ReqIds : Settle(r)
    \/ \E j \in StatusIds : GetStatus(j)

SpecStatus == Init /\ [][NextStatus]_vars

\* A fresh process in front of any site.
InitRun ==
    /\ env = EmptyObj
    /\ config = LoadConfig(EmptyObj)
    /\ jobs = <<>>
    /\ reqs = [r \in ReqIds |-> IdleReq]
    /\ clock = 1
    /\ lastStatus = NoStatus
    /\ site \in Sites

FirstRequest == \A r \in ReqIds : reqs[r].pc = "idle"

\* The first request of a process, with every body, and its run.
NextRun ==
    \/ \E r \in ReqIds, b \in RunBodies, w \in ServerWaits : FirstRequest /\ Automate(r, b, w)
    \/ \E r \in ReqIds : RunStep(r)
    \/ \E r \in ReqIds : Respond(r)
    \/ \E r \in ReqIds : Settle(r)

SpecRun == InitRun /\ [][NextRun]_vars

\* The environments a process may be started in: none of the variables set; a
\* production deployment; credentials and a log note set by the operator.
StartEnvs ==
    {EmptyObj,
     [k \in {"NODE_ENV"} |-> <<"production">>],
     [k \in {"EOXS_EMAIL", "EOXS_PASSWORD", "LOG_NOTE"} |->
        CASE k = "EOXS_EMAIL" -> <<"e0">>
          [] k = "EOXS_PASSWORD" -> <<"p0">>
          [] k = "LOG_NOTE" -> <<"l0">>]}

\* Bodies that exercise the environment update: the README's two, the credentials,
\* a null value, and NODE_ENV.
EnvBodies ==
    {CreationBody, LogNoteBody, CredentialBody,
     SetKey(BodyOver({"TICKET_TITLE"}), "LOG_NOTE", Null),
     BodyOver({"NODE_ENV", "EMAIL_SUBJECT"})}

\* A process started in any of the environments; CONFIG is built when the module
\* is loaded.
InitEnv ==
    /\ env \in StartEnvs
    /\ config = LoadConfig(env)
    /\ jobs = <<>>
    /\ reqs = [r \in ReqIds |-> IdleReq]
    /\ clock = 1
    /\ lastStatus = NoStatus
    /\ site = PlainSite

\* The first request of such a process, with every value of waitForResponse.
NextEnv ==
    \/ \E r \in ReqIds, b \in EnvBodies, w \in WaitValues : FirstRequest /\ Automate(r, b, w)
    \/ \E r \in ReqIds : RunStep(r)
    \/ \E r \in ReqIds : Respond(r)
    \/ \E r \in ReqIds : Settle(r)

SpecEnv == InitEnv /\ [][NextEnv]_vars

\* A site that can show a chain any page, and whose base URL loads or fails at any
\* attempt.
ChainSite == [PlainSite EXCEPT !.pages = ChainPages, !.loads = LoadOutcomes]

\* A fresh process in front of that site.
InitChain ==
    /\ env = EmptyObj
    /\ config = LoadConfig(EmptyObj)
    /\ jobs = <<>>
    /\ reqs = [r \in ReqIds |-> IdleReq]
    /\ clock = 1
    /\ lastStatus = NoStatus
    /\ site = ChainSite

\* The first request of the process, with the README's bodies, and its run.
NextChain ==
    \/ \E r \in ReqIds, b \in ServerBodies, w \in ServerWaits : FirstRequest /\ Automate(r, b, w)
    \/ \E r \in ReqIds : RunStep(r)
    \/ \E r \in ReqIds : Respond(r)
    \/ \E r \in ReqIds : Settle(r)

SpecChain == InitChain /\ [][NextChain]_vars

\* The server under requests that come one after the other.
NextLive ==
    \/ \E r \in ReqIds, b \in ServerBodies, w \in ServerWaits :
            NoneInFlight /\ Automate(r, b, w)
    \/ \E r \in ReqIds : RunStep(r)
    \/ \E r \in ReqIds : Respond(r)
    \/ \E r \in ReqIds : Settle(r)

\* Every browser operation returns or times out, so the step of a run that waits
\* for it is taken; and Node runs the continuation of an await that has returned.
\* Nothing obliges a client to send a request.
SpecLive ==
    /\ Init
    /\ [][NextLive]_vars
    /\ \A r \in ReqIds : WF_vars(RunStep(r)) /\ WF_vars(Respond(r)) /\ WF_vars(Settle(r))

----------------------------------------------------------------------------
\* Properties of the HTTP layer

Background(q) == q.pc # "idle" /\ ~WaitForResponseFlag(q.wait)

Blocking(q) == q.pc # "idle" /\ WaitForResponseFlag(q.wait)

\* The job ids handed out in 202 answers so far.
HandedOut == {reqs[r].response.jobId : r \in {x \in ReqIds : reqs[x].response.code = 202}}

\* C1: a request with waitForResponse=false has its 202 answer and its job id from
\* its first step on, before its run has ended; the id is its own (no other request
\* got it); from then on GET /status/<jobId> answers 200, never 404, and the status
\* it reports is 'running' as long as the background run has not ended.
C1_BackgroundJob ==
    \A r \in ReqIds :
        LET q == reqs[r]
        IN  Background(q) =>
                /\ q.response.code = 202
                /\ q.response.jobId = q.jobId
                /\ \A r2 \in ReqIds \ {r} : Background(reqs[r2]) => reqs[r2].jobId # q.jobId
                /\ StatusAnswer(jobs, q.jobId).code = 200
                /\ (~RunEnded(q) => StatusAnswer(jobs, q.jobId).status = "running")
                /\ (lastStatus.jobId = q.jobId /\ lastStatus.code = 200 /\ ~RunEnded(q))
                        => lastStatus.status = "running"

\* A status answer 200 'running' given for the job of a run that is at its login step.
C1_Witness ==
    \E r \in ReqIds :
        /\ Background(reqs[r])
        /\ reqs[r].pc = "login"
        /\ reqs[r].response.code = 202
        /\ lastStatus.code = 200
        /\ lastStatus.jobId = reqs[r].jobId
        /\ lastStatus.status = "running"

\* C9: GET /status/<id> leaves the job store as it is; for an id that no 202 answer
\* has handed out it answers 404 with success=false and the error 'Job not found';
\* for an id that has been handed out it answers 200 with the stored job's current
\* status, result, createdAt and completedAt.
C9_StatusRoute ==
    [][\A j \in StatusIds :
            GetStatus(j) =>
                /\ jobs' = jobs
                /\ lastStatus'.jobId = j
                /\ IF j \in HandedOut
                   THEN /\ lastStatus'.code = 200
                        /\ lastStatus'.status = jobs[j].status
                        /\ lastStatus'.result = jobs[j].result
                        /\ lastStatus'.createdAt = jobs[j].createdAt
                        /\ lastStatus'.completedAt = jobs[j].completedAt
                   ELSE /\ lastStatus'.code = 404
                        /\ lastStatus'.success = FALSE
                        /\ lastStatus'.error = "Job not found"]_vars

\* A 404 answer given while the store holds a job, next to a settled job.
C9_Witness ==
    /\ lastStatus.code = 404
    /\ lastStatus.jobId \notin HandedOut
    /\ Len(jobs) > 0
    /\ jobs[1].status = "completed"

----------------------------------------------------------------------------
\* Properties of a run

\* run() has left its try block: its result is fixed.
Decided(q) == q.pc \in {"close", "returned"}

Did(q, name) == \E i \in 1..Len(q.steps) : q.steps[i] = name

\* The steps whose failure run() is said to turn into a failed result.
ReportedSteps ==
    {"init", "login", "navigate", "clickCreate", "fillTicketForm", "submitTicket",
     "openTicket", "clickOnCreatedTicket", "addLogNote"}

\* C2: whenever run() returns, a failure of init, login, navigation, create, fill,
\* submit, open ticket or log note has given a result with success=false and an
\* error message, and the result has success=true exactly when none of them failed.
C2_FailedStepFailsRun ==
    \A r \in ReqIds :
        LET q == reqs[r]
        IN  (q.pc = "returned" /\ ~q.threw) =>
                /\ ~q.result.isNull
                /\ q.result.success = (q.failed \cap ReportedSteps = {})
                /\ ~q.result.success => q.result.error # ""

\* C3: a blocking request has no answer before its run has ended, and when run()
\* has returned, the answer is 200 and carries the success flag of the run's result.
C3_BlockingAnswer ==
    \A r \in ReqIds :
        LET q == reqs[r]
        IN  Blocking(q) =>
                /\ q.response # NoAnswer => q.pc = "done"
                /\ (q.pc = "done" /\ ~q.threw) =>
                        /\ q.response.code = 200
                        /\ q.response.success = q.result.success
                        /\ q.response.data = q.result

\* A blocking request answered 200 with success=false after a failed run.
C3_Witness ==
    \E r \in ReqIds :
        /\ Blocking(reqs[r])
        /\ reqs[r].pc = "done"
        /\ reqs[r].response.code = 200
        /\ ~reqs[r].result.isNull
        /\ ~reqs[r].result.success
        /\ ~reqs[r].response.success

\* The run of q is one the request asked to be log note only.
AskedLogNoteOnly(q) ==
    /\ Truthy(q.envSeen, "TICKET_TITLE")
    /\ Truthy(q.envSeen, "LOG_NOTE") \/ Truthy(q.envSeen, "EMAIL_SUBJECT")

C5_SuccessMeansNoted ==
    \A r \in ReqIds :
        LET q == reqs[r]
        IN  (q.mode = "create" /\ Decided(q) /\ q.result.success) =>
                /\ q.submitted
                /\ q.posted

\* The body supplies EMAIL_SUBJECT, EMAIL_CUSTOMER and EMAIL_BODY.
EmailSupplied(q) ==
    /\ Truthy(q.envSeen, "EMAIL_SUBJECT")
    /\ Truthy(q.envSeen, "EMAIL_CUSTOMER")
    /\ Truthy(q.envSeen, "EMAIL_BODY")

\* C6: in a creation run whose request supplied EMAIL_SUBJECT, EMAIL_CUSTOMER and
\* EMAIL_BODY, the description typed into the ticket form and the text typed as the
\* log note are both the value of EMAIL_BODY.
C6_BodyIsDescriptionAndNote ==
    \A r \in ReqIds :
        LET q == reqs[r]
        IN  (q.mode = "create" /\ EmailSupplied(q)) =>
                /\ q.last.step = "fillTicketForm" => q.last.desc \subseteq {q.envSeen["EMAIL_BODY"]}
                /\ q.last.step = "addLogNote" => q.last.note \subseteq {q.envSeen["EMAIL_BODY"]}

\* C7: the title a run types or searches is EMAIL_SUBJECT when that is supplied
\* without TICKET_TITLE, and TICKET_TITLE whenever that is supplied; the log note
\* it types is LOG_NOTE whenever that is supplied. Supplied means non-empty: the
\* code tests the variables for truth.
C7_TitleAndNotePrecedence ==
    \A r \in ReqIds :
        LET q == reqs[r]
            e == q.envSeen
        IN  q.mode # "" =>
                /\ Truthy(e, "TICKET_TITLE") =>
                        /\ config.title = e["TICKET_TITLE"]
                        /\ q.last.title \subseteq {e["TICKET_TITLE"]}
                /\ (Truthy(e, "EMAIL_SUBJECT") /\ ~Truthy(e, "TICKET_TITLE")) =>
                        /\ config.title = e["EMAIL_SUBJECT"]
                        /\ q.last.title \subseteq {e["EMAIL_SUBJECT"]}
                /\ Truthy(e, "LOG_NOTE") =>
                        /\ config.logNote = e["LOG_NOTE"]
                        /\ q.last.note \subseteq {e["LOG_NOTE"]}

\* A run given TICKET_TITLE, EMAIL_SUBJECT and LOG_NOTE that searched the ticket
\* title and then typed the log note.
C7_Witness ==
    \E r \in ReqIds :
        /\ Truthy(reqs[r].envSeen, "TICKET_TITLE")
        /\ Truthy(reqs[r].envSeen, "EMAIL_SUBJECT")
        /\ Truthy(reqs[r].envSeen, "LOG_NOTE")
        /\ Did(reqs[r], "openTicket")
        /\ reqs[r].last.step = "addLogNote"
        /\ reqs[r].last.note = {reqs[r].envSeen["LOG_NOTE"]}

\* C8: the customer the edit step types is the EMAIL_CUSTOMER of the request, and
\* the option it selects shows that name.
C8_CustomerIsEmailCustomer ==
    \A r \in ReqIds :
        LET q == reqs[r]
        IN  (q.last.step = "editTicketDetails" /\ Truthy(q.envSeen, "EMAIL_CUSTOMER")) =>
                /\ q.last.customer \subseteq {q.envSeen["EMAIL_CUSTOMER"]}
                /\ \A o \in q.last.selected : Includes(o, q.envSeen["EMAIL_CUSTOMER"])

\* No ticket card of the page shows the title.
NoCardShows(board, t) ==
    \A el \in board : el.card => ~Includes(ToLowerCase(el.text), ToLowerCase(t))

\* C10: a log-note-only run that looked for its ticket on a page where no ticket
\* card contains the title ends with success=false and the error that the ticket
\* was not found, and posts no log note.
C10_MissingTicketReported ==
    \A r \in ReqIds :
        LET q == reqs[r]
        IN  (/\ q.mode = "lognote"
             /\ Decided(q)
             /\ Did(q, "openTicket")
             /\ NoCardShows(site.board, q.envSeen["TICKET_TITLE"])) =>
                /\ q.result = Failure(ErrNotFound)
                /\ ~q.posted

----------------------------------------------------------------------------
\* Properties of the state shared by requests

\* process.env as the handler of the first request of a process leaves it.
FreshEnv(b, w) == ForceHeadless(MergeBody(EmptyObj, b, w))

\* CONFIG as the run of the first request of a process sets it up.
FreshConfig(b, w) ==
    LET e == FreshEnv(b, w)
    IN  ApplyLogNoteOnly(
            UpdateDescriptionFromEmail(
                UpdateTicketDetailsFromEnv(LoadConfig(EmptyObj), e), e), e)

FreshMode(b, w) == IF LogNoteOnlyMode(FreshEnv(b, w)) THEN "lognote" ELSE "create"

\* C11: a run has the mode, title, customer, description and log note that the
\* first request of a process gets for the same body, whatever requests the process
\* has served and finished before.
C11_RequestScoped ==
    \A r \in ReqIds :
        LET q == reqs[r]
            f == FreshConfig(q.body, q.wait)
        IN  (InFlight(q) /\ q.mode # "") =>
                /\ q.mode = FreshMode(q.body, q.wait)
                /\ config.title = f.title
                /\ config.customer = f.customer
                /\ config.description = f.description
                /\ config.logNote = f.logNote

\* No request has finished yet: the requests received so far overlap.
NoneDone == \A r \in ReqIds : reqs[r].pc # "done"

\* C12: while requests overlap, each run has the mode its own body asks for, and
\* the title, the form description and the log note it types are those derived
\* from its own body.
C12_OwnBodyWhenOverlapping ==
    NoneDone =>
        \A r \in ReqIds :
            LET q == reqs[r]
                f == FreshConfig(q.body, q.wait)
            IN  q.mode # "" =>
                    /\ q.mode = FreshMode(q.body, q.wait)
                    /\ q.last.title \subseteq {f.title}
                    /\ q.last.note \subseteq {f.logNote}
                    /\ q.last.step = "fillTicketForm" => q.last.desc \subseteq {f.description}

\* C13: the step that answers a blocking request leaves process.env with exactly
\* the keys and values it had when the request arrived.
C13_EnvRestoredAfterBlocking ==
    [][\A r \in ReqIds : Respond(r) => env' = reqs[r].originalEnv]_vars

AllAnswered == \A r \in ReqIds : reqs[r].pc \in {"idle", "done"}

\* C14: once blocking requests, overlapping or not, have all been answered 200,
\* process.env equals its value before the first of them arrived (the empty
\* environment the process started with).
C14_EnvRestoredAfterOverlap ==
    (/\ AllAnswered
     /\ \A r \in ReqIds : reqs[r].pc = "done" => Blocking(reqs[r]) /\ reqs[r].response.code = 200)
        => env = EmptyObj

----------------------------------------------------------------------------
\* Further properties of a run

\* C15: the e-mail and the password a run types into the login form are the values
\* of EOXS_EMAIL and EOXS_PASSWORD that process.env holds for its request, values
\* supplied in the request body included.
C15_CredentialsPerRequest ==
    \A r \in ReqIds :
        LET q == reqs[r]
        IN  q.last.step = "login" =>
                /\ Truthy(q.envSeen, "EOXS_EMAIL") =>
                        q.last.email \subseteq {q.envSeen["EOXS_EMAIL"]}
                /\ Truthy(q.envSeen, "EOXS_PASSWORD") =>
                        q.last.password \subseteq {q.envSeen["EOXS_PASSWORD"]}

\* C15, as the code has it: the e-mail and the password a run types are the values
\* EOXS_EMAIL and EOXS_PASSWORD had when the process loaded the module (the
\* built-in defaults where unset), whatever the request body supplies. The run is
\* that of the first request, whose originalEnv is the environment at start.
C15_CredentialsAtLoad ==
    \A r \in ReqIds :
        LET q == reqs[r]
            e0 == q.originalEnv
        IN  q.last.step = "login" =>
                /\ q.last.email \subseteq
                        {IF Truthy(e0, "EOXS_EMAIL") THEN e0["EOXS_EMAIL"] ELSE DefaultEmail}
                /\ q.last.password \subseteq
                        {IF Truthy(e0, "EOXS_PASSWORD") THEN e0["EOXS_PASSWORD"] ELSE DefaultPassword}

\* A run whose body supplies the credentials e, p and that typed e0, p0 of the
\* environment the process was started in.
C15_Witness ==
    \E r \in ReqIds :
        /\ reqs[r].last.step = "login"
        /\ reqs[r].body = CredentialBody
        /\ reqs[r].envSeen["EOXS_EMAIL"] = <<"e">>
        /\ reqs[r].last.email = {<<"e0">>}
        /\ reqs[r].last.password = {<<"p0">>}

----------------------------------------------------------------------------
\* Properties of the handler's first step

\* C16: POST /automate writes every body key whose value is not null into
\* process.env, as a string, the waitForResponse key included; it leaves a variable
\* as it was when the body gives it null; and it changes no other variable, except
\* that HEADLESS is 'true' afterwards when NODE_ENV is 'production'.
C16_EnvUpdate ==
    [][\A r \in ReqIds, b \in EnvBodies, w \in WaitValues :
            Automate(r, b, w) =>
                LET written == {k \in DOMAIN b : b[k] # Null}
                                 \cup (IF w \in {WaitAbsent, WaitNull} THEN {} ELSE {"waitForResponse"})
                    forced == IF Has(env', "NODE_ENV") /\ env'["NODE_ENV"] = <<"production">>
                              THEN {"HEADLESS"} ELSE {}
                IN  /\ \A k \in DOMAIN b :
                            (b[k] # Null /\ k \notin forced) => (Has(env', k) /\ env'[k] = b[k])
                    /\ w \in {"false", "'false'"} => env'["waitForResponse"] = <<"false">>
                    /\ w \in {"true", "'true'"} => env'["waitForResponse"] = <<"true">>
                    /\ w = "'yes'" => env'["waitForResponse"] = <<"yes">>
                    /\ \A k \in forced : Has(env', k) /\ env'[k] = <<"true">>
                    /\ \A k \in ((DOMAIN env) \cup (DOMAIN env')) \ (written \cup forced) :
                            Has(env, k) /\ Has(env', k) /\ env'[k] = env[k]]_vars

\* A request just received whose body gives LOG_NOTE null and TICKET_TITLE "t",
\* with waitForResponse false: LOG_NOTE is as the process had it, the other two
\* are written.
C16_Witness ==
    \E r \in ReqIds :
        /\ reqs[r].pc = "init"
        /\ Has(reqs[r].body, "LOG_NOTE") /\ reqs[r].body["LOG_NOTE"] = Null
        /\ reqs[r].wait = "false"
        /\ Has(env, "LOG_NOTE") /\ env["LOG_NOTE"] = <<"l0">>
        /\ Has(env, "TICKET_TITLE") /\ env["TICKET_TITLE"] = <<"t">>
        /\ Has(env, "waitForResponse") /\ env["waitForResponse"] = <<"false">>

\* The values of waitForResponse said to give the blocking mode.
BlockingWaits == {"absent", "null", "true", "'true'"}

----------------------------------------------------------------------------
\* Properties of the browser, the step order and the screenshots

\* The number of times the run of q has executed the step.
Times(q, name) == Cardinality({i \in 1..Len(q.steps) : q.steps[i] = name})

\* C18: a request launches at most one browser, and when its run has ended, on
\* whatever path, a browser it launched is closed.
C18_BrowserClosed ==
    \A r \in ReqIds :
        LET q == reqs[r]
        IN  /\ Times(q, "init") <= 1
            /\ q.browser # "none" => Did(q, "init")
            /\ q.pc = "returned" => q.browser # "open"

\* C18, as the code has it: a request launches at most one browser, and whenever
\* run() returns a result (success, failed step, exception after launch) a browser
\* it launched has been closed; a run whose browser.close() itself throws does not
\* return but rejects.
C18_BrowserClosedOnReturn ==
    \A r \in ReqIds :
        LET q == reqs[r]
        IN  /\ Times(q, "init") <= 1
            /\ q.browser # "none" => Did(q, "init")
            /\ (q.pc = "returned" /\ ~q.threw) => q.browser # "open"

\* A run that failed at a step after the launch and has returned with its browser
\* closed.
C18_Witness ==
    \E r \in ReqIds :
        /\ reqs[r].pc = "returned"
        /\ ~reqs[r].threw
        /\ Did(reqs[r], "navigate")
        /\ ~reqs[r].result.success
        /\ reqs[r].browser = "closed"

\* The two step sequences of the flow.
CreateFlow ==
    <<"init", "login", "navigate", "clickCreate", "fillTicketForm", "submitTicket",
      "closePopup", "clickOnCreatedTicket", "editTicketDetails", "addLogNote">>

LogNoteFlow == <<"init", "login", "navigate", "openTicket", "addLogNote">>

IsPrefix(s, t) == Len(s) <= Len(t) /\ \A i \in 1..Len(s) : s[i] = t[i]

\* C19: the steps a run has executed are an initial part of one of the two fixed
\* sequences; every step before the last one executed reported success; and a run
\* in which a step reported failure ends with success=false and, having a page,
\* with the 'error' screenshot as its last one.
C19_FailedStepAborts ==
    \A r \in ReqIds :
        LET q == reqs[r]
        IN  InFlight(q) =>
                /\ IsPrefix(q.steps, CreateFlow) \/ IsPrefix(q.steps, LogNoteFlow)
                /\ \A i \in 1..(Len(q.steps) - 1) : q.steps[i] \notin q.failed
                /\ (Decided(q) /\ q.failed # {}) =>
                        /\ ~q.result.success
                        /\ q.page => (q.shots # <<>> /\ q.shots[Len(q.shots)] = "error")

\* The screenshot names of the README, in its order.
ReadmeShots ==
    <<"after_login", "after_test_support_selection", "after_create", "after_form_fill",
      "after_submit", "after_ticket_edit", "after_log_note", "error">>

IsReadmeShot(name) == \E k \in 1..Len(ReadmeShots) : ReadmeShots[k] = name

ShotRank(name) == CHOOSE k \in 1..Len(ReadmeShots) : ReadmeShots[k] = name

\* C20: a run captures screenshots only under the names of the README, each at
\* most once and in the README's order; a run that has a page captures 'error'
\* exactly when it fails, and 'error' is then the last one.
C20_ScreenshotNames ==
    \A r \in ReqIds :
        LET q == reqs[r]
            n == Len(q.shots)
        IN  InFlight(q) =>
                /\ \A i \in 1..n : IsReadmeShot(q.shots[i])
                /\ \A i \in 1..n : \A j \in (i + 1)..n :
                        (IsReadmeShot(q.shots[i]) /\ IsReadmeShot(q.shots[j])) =>
                            ShotRank(q.shots[i]) < ShotRank(q.shots[j])
                /\ (Decided(q) /\ q.page) =>
                        (~q.result.success) = (n > 0 /\ q.shots[n] = "error")

----------------------------------------------------------------------------
\* Properties of the selector chains and of the clicks

\* The selectors of a chain that the page shows visible.
VisibleOnes(t) == {i \in 1..Len(t.vis) : t.vis[i] = "visible"}

\* The first of them, in list order.
FirstVisibleOne(t) == CHOOSE i \in VisibleOnes(t) : \A j \in VisibleOnes(t) : i <= j

\* C21: a selector chain that has run (login trigger, e-mail field, password field,
\* Create button, submit button, Log Note button) tried its selectors in list
\* order; if the page shows one visible, the first visible one is the only one
\* acted on and the last one tried; a selector whose visibility check threw or
\* answered false was passed over, so that with none visible all were tried.
C21_FirstVisibleSelector ==
    \A r \in ReqIds :
        LET t == reqs[r].last.chain
        IN  t.name # "" =>
                /\ \A i \in 1..Len(t.tried) : t.tried[i] = i
                /\ IF VisibleOnes(t) # {}
                   THEN /\ t.acted = <<FirstVisibleOne(t)>>
                        /\ Len(t.tried) = FirstVisibleOne(t)
                   ELSE /\ t.acted = <<>>
                        /\ Len(t.tried) = Len(t.vis)

----------------------------------------------------------------------------
\* Properties of the handler's exception path and of the job store

\* C22: when run() rejects in a blocking request, the step that answers it sends
\* 500 with success=false and the error message, and leaves process.env as it was
\* before the request.
C22_ErrorAnswerRestoresEnv ==
    [][\A r \in ReqIds :
            (Respond(r) /\ reqs[r].threw) =>
                /\ reqs'[r].response.code = 500
                /\ ~reqs'[r].response.success
                /\ reqs'[r].response.error # ""
                /\ env' = reqs[r].originalEnv]_vars

\* C23: a run that has posted its log note has posted it on the element it opened,
\* and the text of that element contains the run's title (in any letter case),
\* in both modes.
C23_NoteOnTitledTicket ==
    \A r \in ReqIds :
        LET q == reqs[r]
        IN  (InFlight(q) /\ q.posted) =>
                /\ q.opened # {}
                /\ \A el \in q.opened :
                        Includes(ToLowerCase(el.text), ToLowerCase(config.title))

\* C24: a job record with status 'completed' holds a result with success=true, and
\* one with status 'failed' holds a result with success=false.
C24_StatusMatchesResult ==
    \A j \in DOMAIN jobs :
        /\ jobs[j].status = "completed" =>
                (~jobs[j].result.isNull /\ jobs[j].result.success)
        /\ jobs[j].status = "failed" =>
                (~jobs[j].result.isNull /\ ~jobs[j].result.success)

\* C25: in every step the job store keeps every record it has, with its id and its
\* creation time; a record's status changes only from 'running' to 'completed' or
\* 'failed', and a record that is no longer 'running' does not change at all; an id
\* GET /status answers 200 for is answered 200 afterwards; and no two background
\* requests have the same job id.
C25_JobsKeptAndSettledOnce ==
    [][/\ Len(jobs') >= Len(jobs)
       /\ \A j \in DOMAIN jobs :
            /\ jobs'[j].id = jobs[j].id
            /\ jobs'[j].createdAt = jobs[j].createdAt
            /\ jobs'[j].status # jobs[j].status =>
                    (jobs[j].status = "running" /\ jobs'[j].status \in {"completed", "failed"})
            /\ jobs[j].status # "running" => jobs'[j] = jobs[j]
            /\ StatusAnswer(jobs, j).code = 200 => StatusAnswer(jobs', j).code = 200
       /\ \A r1 \in ReqIds : \A r2 \in ReqIds \ {r1} :
            (Background(reqs'[r1]) /\ Background(reqs'[r2])) =>
                reqs'[r1].jobId # reqs'[r2].jobId]_vars

\* Two background runs that overlapped, the second one settled and the first one
\* still running.
C25_Witness ==
    /\ Len(jobs) = 2
    /\ jobs[1].status = "running"
    /\ jobs[2].status = "completed"
    /\ \E r \in ReqIds : reqs[r].jobId = 1 /\ InFlight(reqs[r])

\* C26: a job record has status 'running' exactly when its result and its
\* completedAt are both null; what GET /status reports for it, and what it has
\* reported in its latest answer, has duration null exactly when the status is
\* 'running', and a duration of at least zero when the status is 'completed' or
\* 'failed'. Times are readings of a clock that does not run backwards.
C26_RunningMeansNoResult ==
    /\ \A j \in DOMAIN jobs :
            LET a == StatusAnswer(jobs, j)
            IN  /\ jobs[j].status \in {"running", "completed", "failed"}
                /\ (jobs[j].status = "running") =
                        (jobs[j].result.isNull /\ jobs[j].completedAt = NullTime)
                /\ jobs[j].status # "running" =>
                        (~jobs[j].result.isNull /\ jobs[j].completedAt # NullTime)
                /\ a.durationNull = (jobs[j].status = "running")
                /\ ~a.durationNull => a.duration >= 0
    /\ lastStatus.code = 200 =>
            /\ lastStatus.durationNull = (lastStatus.status = "running")
            /\ lastStatus.status \in {"completed", "failed"} => lastStatus.duration >= 0

\* A status answer for a job that failed, with a duration.
C26_Witness ==
    /\ lastStatus.code = 200
    /\ lastStatus.status = "failed"
    /\ ~lastStatus.durationNull
    /\ lastStatus.duration > 0
    /\ ~lastStatus.result.isNull

\* C27: when every browser operation returns or times out, every job in the store
\* eventually has status 'completed' or 'failed'.
C27_JobsSettle ==
    \A j \in ReqIds :
        (j \in DOMAIN jobs) ~>
            (j \in DOMAIN jobs /\ jobs[j].status \in {"completed", "failed"})

\* Two jobs, the first one settled as 'failed' after a run that rejected, the
\* second one as 'completed'.
C27_Witness ==
    /\ Len(jobs) = 2
    /\ jobs[1].status = "failed"
    /\ jobs[2].status = "completed"
    /\ \A r \in ReqIds : reqs[r].pc = "done"

\* The request has its HTTP answer.
Answered(q) == q.response # NoAnswer

\* C28: every request received is answered, with 202, 200 or 500, and an answer
\* once sent is the only one: no later step of the handler or of the run sends
\* another. A background request has its 202 from its first step on; a blocking
\* request is answered when its run has ended, 200 if run() returned and 500 if it
\* rejected.
C28_ExactlyOneAnswer ==
    /\ [](\A r \in ReqIds :
            LET q == reqs[r]
            IN  /\ Answered(q) => q.response.code \in {202, 200, 500}
                /\ Background(q) => q.response.code = 202
                /\ (Blocking(q) /\ q.pc = "done") =>
                        q.response.code = (IF q.threw THEN 500 ELSE 200))
    /\ [][\A r \in ReqIds : Answered(reqs[r]) => reqs'[r].response = reqs[r].response]_vars
    /\ \A r \in ReqIds : (reqs[r].pc # "idle") ~> Answered(reqs[r])

\* A blocking request answered 500, then a background request answered 202 whose
\* job has settled.
C28_Witness ==
    /\ reqs[1].pc = "done" /\ Blocking(reqs[1]) /\ reqs[1].response.code = 500
    /\ reqs[2].pc = "done" /\ Background(reqs[2]) /\ reqs[2].response.code = 202
    /\ Len(jobs) = 1 /\ jobs[1].status = "completed"

\* C29: clickCreate, submitTicket and addLogNote report success only when the
\* control they found was really clicked: a step of these that returned true has
\* clicked.
C29_FlagMeansClicked ==
    \A r \in ReqIds :
        LET q == reqs[r]
        IN  (q.last.step \in {"clickCreate", "submitTicket", "addLogNote"} /\ q.last.returned)
                => q.last.clicked

\* C30: login() calls page.goto at most three times, each call after a failed
\* one, so that none follows a call that loaded the page; it gives up before the
\* third call only if the pause between two calls throws; when the page has not
\* loaded, after three failed calls in particular, login() has filled no
\* credential field and run no selector chain, and the run ends with success=false
\* and the error 'Login failed', login being its last step and 'error' its only
\* screenshot.
C30_ThreeNavigationAttempts ==
    \A r \in ReqIds :
        LET q == reqs[r]
            n == q.last.nav
        IN  (InFlight(q) /\ q.last.step = "login") =>
                /\ n.gotos \in 1..3
                /\ \A i \in 1..(n.gotos - 1) : ~n.loads[i]
                /\ n.loaded = n.loads[n.gotos]
                /\ (~n.loaded /\ ~n.broke) => n.gotos = 3
                /\ ~n.loaded =>
                        /\ Decided(q)
                        /\ q.last.email = {} /\ q.last.password = {}
                        /\ q.last.chain = NoChain
                        /\ q.result = Failure(ErrLogin)
                        /\ q.steps = <<"init", "login">>
                        /\ q.shots = <<"error">>

\* A run whose three page loads failed and that ends with 'Login failed'.
C30_Witness ==
    \E r \in ReqIds :
        /\ reqs[r].pc = "close"
        /\ reqs[r].last.step = "login"
        /\ reqs[r].last.nav.gotos = 3
        /\ ~reqs[r].last.nav.loaded
        /\ reqs[r].result = Failure(ErrLogin)
        /\ reqs[r].steps = <<"init", "login">>

====
